---- MODULE Spec2Model ----
\* Protein Explorer (App, handleFetchData, ProteinViewer) as a state machine.
\* Text is modelled as sequences of one-character strings so that trim(),
\* split() and the accession pattern are computed character by character.
EXTENDS Integers, Sequences, FiniteSets, TLC

\* ---------------------------------------------------------------- bounds
\* Number of handleFetchData invocations in one behaviour.
MaxSearches == 2
\* Longest structures array a structure-summary response carries.
MaxStructures == 2
\* Number of createPlugin calls of one ProteinViewer in one behaviour.
MaxSessions == 3
\* Pieces of text in one argument of renderLinks.
MaxSegments == 3

\* ------------------------------------------------------------ JS values
\* null / absent option, and a present value.
Null == <<>>
Some(x) == <<x>>
\* The empty string "" (initial selectedStructureURL / selectedStructureID).
EmptyString == <<>>
\* The JS value undefined (distinct from every character sequence).
Undefined == <<"undefined">>
\* JS truthiness of a property read: undefined and "" are falsy.
Truthy(v) == v # Undefined /\ v # EmptyString

\* ------------------------------------------------------ accession pattern
AccessionMinLen == 6
AccessionMaxLen == 10
UpperAlnum ==
  {"A","B","C","D","E","F","G","H","I","J","K","L","M","N","O","P","Q","R",
   "S","T","U","V","W","X","Y","Z","0","1","2","3","4","5","6","7","8","9"}
\* /^[A-Z0-9]{6,10}$/.test(query)
IsUniprot(query) ==
  /\ Len(query) >= AccessionMinLen
  /\ Len(query) <= AccessionMaxLen
  /\ \A k \in 1..Len(query) : query[k] \in UpperAlnum

\* ------------------------------------------------------------- String.trim
WhiteSpace == {" ", "\t", "\n", "\r"}
RECURSIVE TrimStart(_)
TrimStart(s) ==
  IF Len(s) > 0 /\ s[1] \in WhiteSpace THEN TrimStart(Tail(s)) ELSE s
RECURSIVE TrimEnd(_)
TrimEnd(s) ==
  IF Len(s) > 0 /\ s[Len(s)] \in WhiteSpace
    THEN TrimEnd(SubSeq(s, 1, Len(s) - 1))
    ELSE s
Trim(s) == TrimEnd(TrimStart(s))

\* ------------------------------------------------------------ String.split
\* s.split(sep) for a one-character separator: the fields between separators.
RECURSIVE SplitFrom(_, _, _, _)
SplitFrom(s, sep, k, field) ==
  IF k > Len(s) THEN <<field>>
  ELSE IF s[k] = sep THEN <<field>> \o SplitFrom(s, sep, k + 1, <<>>)
  ELSE SplitFrom(s, sep, k + 1, Append(field, s[k]))
Split(s, sep) == SplitFrom(s, sep, 1, <<>>)

\* ------------------------------------------------- the mapping file (SymbolMap)
\* A JS object used as a dictionary: its own properties are a function from
\* keys to values; reads fall back to Object.prototype.
EmptyObject == [k \in {} |-> Undefined]
\* "constructor" and the text `${Object}` that the inherited value becomes in
\* a template literal.
ConstructorKey == <<"c","o","n","s","t","r","u","c","t","o","r">>
ObjectFunctionText ==
  <<"f","u","n","c","t","i","o","n"," ","O","b","j","e","c","t","(",")"," ",
    "{"," ","[","n","a","t","i","v","e"," ","c","o","d","e","]"," ","}">>
\* Properties every object literal inherits (the one the inputs exercise).
ObjectPrototype == [k \in {ConstructorKey} |-> ObjectFunctionText]
\* mapping[key]: own property, else inherited property, else undefined.
GetProperty(obj, key) ==
  IF key \in DOMAIN obj THEN obj[key]
  ELSE IF key \in DOMAIN ObjectPrototype THEN ObjectPrototype[key]
  ELSE Undefined
\* mapping[symbol] = uniprotId
SetProperty(obj, key, value) ==
  [k \in (DOMAIN obj) \cup {key} |-> IF k = key THEN value ELSE obj[k]]
\* const [symbol, uniprotId] = line.split(","); if (symbol && uniprotId) ...
AddLine(mapping, line) ==
  LET fields == Split(line, ",")
      symbol == fields[1]
      uniprotId == IF Len(fields) >= 2 THEN fields[2] ELSE Undefined
  IN IF Truthy(symbol) /\ Truthy(uniprotId)
       THEN SetProperty(mapping, symbol, uniprotId)
       ELSE mapping
\* lines.forEach(...)
RECURSIVE AddLines(_, _, _)
AddLines(mapping, lines, k) ==
  IF k > Len(lines) THEN mapping
  ELSE AddLines(AddLine(mapping, lines[k]), lines, k + 1)
\* The try-branch of fetchSymbolToUniprotMap on a response text.
ParseMapping(text) == AddLines(EmptyObject, Split(text, "\n"), 1)

\* Contents the static mapping resource may have.
\* "TP53,P04637\nBAD\n": one mapping, one malformed line, a trailing newline.
MappingText ==
  <<"T","P","5","3",",","P","0","4","6","3","7","\n","B","A","D","\n">>
\* "TP53,P04637\r\nBAD\r\n": the same file saved with CRLF line ends.
MappingTextCrLf ==
  <<"T","P","5","3",",","P","0","4","6","3","7","\r","\n",
    "B","A","D","\r","\n">>
\* Outcomes of fetch(symbolUniprotMapping): the file with LF or with CRLF line
\* ends, a non-success status, or a rejected fetch.
MappingResponses == {"ok", "okCrLf", "notOk", "networkError"}
\* What fetchSymbolToUniprotMap resolves to (catch returns {}).
fetchSymbolToUniprotMap(response) ==
  IF response = "ok" THEN ParseMapping(MappingText)
  ELSE IF response = "okCrLf" THEN ParseMapping(MappingTextCrLf)
  ELSE EmptyObject

\* ------------------------------------------------------------ user input
\* Texts the user may type into the search box.
Inputs ==
  { <<"Q","0","0","9","8","7"," ">>,
    <<"T","P","5","3">>,
    <<"t","p","5","3">>,
    ConstructorKey }
Keys == {"Enter", "a"}

\* ------------------------------------------------------- remote services
\* Outcomes of the annotation request (fetchUniProtData).
AnnotationResponses == {"ok", "notOk", "networkError"}
\* The decoded annotation JSON of an accession.
UniProtRecord(accession) == [primaryAccession |-> accession]
\* A structure-summary entry of an accession.
Structure(accession, n) ==
  [summary |-> [model_identifier |-> <<"id", accession, n>>,
                model_url |-> <<"url", accession, n>>]]
\* Outcomes of the structure-summary request: the fetch rejects, the body does
\* not decode, or a body decodes (null, without structures, or with a
\* structures array of 0..MaxStructures entries).
SummaryResponses(accession) ==
  { [kind |-> "networkError"], [kind |-> "badJson"], [kind |-> "null"],
    [kind |-> "noStructures"] }
  \cup { [kind |-> "structures",
          structures |-> [n \in 1..len |-> Structure(accession, n)]]
         : len \in 0..MaxStructures }

\* Messages of the errors thrown in handleFetchData.
NoMappingMessage == "No UniProt ID found for the given Gene Symbol."
FetchFailedMessage == "Failed to fetch UniProt data"
NetworkErrorMessage == "TypeError: Failed to fetch"
SyntaxErrorMessage == "SyntaxError: Unexpected token"

\* ------------------------------------------------------------------ state
VARIABLES
  input, proteinData, loading, error, availableStructures,
  selectedStructureURL, selectedStructureID, isDialogOpen, hasSearched,
  isLoading,
  symbolToUniprotMap,
  calls,
  timeouts,
  clock,
  lifecycle, dataUrl, cleanup, pluginRef, sessions,
  text, pubmedReplaced, rendered

\* State of App and of its handleFetchData calls.
appVars ==
  << input, proteinData, loading, error, availableStructures,
     selectedStructureURL, selectedStructureID, isDialogOpen, hasSearched,
     isLoading, symbolToUniprotMap, calls, timeouts, clock >>

\* State of one ProteinViewer and of the sessions createPlugin has started.
viewerVars == << lifecycle, dataUrl, cleanup, pluginRef, sessions >>

\* One evaluation of renderLinks: its argument, the result of its first
\* replace and its return value.
renderVars == << text, pubmedReplaced, rendered >>

vars == << appVars, viewerVars, renderVars >>

\* React state other than what handleFetchData's first segment sets.
resultState ==
  << proteinData, availableStructures, selectedStructureURL,
     selectedStructureID, hasSearched >>

AppInit ==
  /\ input = EmptyString
  /\ proteinData = Null
  /\ loading = FALSE
  /\ error = Null
  /\ availableStructures = <<>>
  /\ selectedStructureURL = EmptyString
  /\ selectedStructureID = EmptyString
  /\ isDialogOpen = FALSE
  /\ hasSearched = FALSE
  /\ isLoading = FALSE
  /\ symbolToUniprotMap = [settled |-> FALSE, value |-> EmptyObject]
  /\ calls = <<>>
  /\ timeouts = 0
  /\ clock = 0

ViewerInit ==
  /\ lifecycle = "initial"
  /\ dataUrl = EmptyString
  /\ cleanup = FALSE
  /\ pluginRef = Null
  /\ sessions = <<>>

\* renderLinks has not been called.
RenderIdle ==
  /\ text = EmptyString
  /\ pubmedReplaced = Null
  /\ rendered = Null

Init == AppInit /\ ViewerInit /\ RenderIdle

\* A continuation of `await symbolToUniprotMap` is queued: it runs before any
\* further event is handled.
MicrotaskPending ==
  symbolToUniprotMap.settled /\ \E i \in 1..Len(calls) : calls[i].pc = "mapping"

\* --------------------------------------------------------------- the view
\* {isLoading && <full-screen indicator>}
ShowsProgressIndicator == isLoading
\* {hasSearched && ... {error && <p>{error}</p>}}
ShowsError == hasSearched /\ error # Null
\* {hasSearched && ... {proteinData ? <panels> : null}}
ShowsPanels == hasSearched /\ proteinData # Null

\* ---------------------------------------------------------------- actions
\* The mapping fetch started by useMemo settles.
LoadMapping(response) ==
  /\ UNCHANGED << viewerVars, renderVars >>
  /\ ~symbolToUniprotMap.settled
  /\ symbolToUniprotMap' =
       [settled |-> TRUE, value |-> fetchSymbolToUniprotMap(response)]
  /\ UNCHANGED << input, proteinData, loading, error, availableStructures,
                  selectedStructureURL, selectedStructureID, isDialogOpen,
                  hasSearched, isLoading, calls, timeouts, clock >>

\* onChange of the search box (typing is modelled while a search can follow).
SetInput(value) ==
  /\ UNCHANGED << viewerVars, renderVars >>
  /\ ~MicrotaskPending
  /\ Len(calls) < MaxSearches
  /\ value # input
  /\ input' = value
  /\ UNCHANGED << proteinData, loading, error, availableStructures,
                  selectedStructureURL, selectedStructureID, isDialogOpen,
                  hasSearched, isLoading, symbolToUniprotMap, calls, timeouts,
                  clock >>

\* handleFetchData up to its first await: the three setters, trim, the pattern
\* test, and either `await symbolToUniprotMap` or the annotation request.
handleFetchData ==
  /\ UNCHANGED << viewerVars, renderVars >>
  /\ Len(calls) < MaxSearches
  /\ isLoading' = TRUE
  /\ loading' = TRUE
  /\ error' = Null
  /\ LET query == Trim(input)
         isUniprot == IsUniprot(query)
     IN calls' = Append(calls,
          [ pc |-> IF isUniprot THEN "annotation" ELSE "mapping",
            trimmed |-> query,
            isUniprot |-> isUniprot,
            query |-> query,
            annotationRequest |-> IF isUniprot THEN Some(query) ELSE Null,
            summaryRequest |-> Null,
            awaitedMapping |-> ~isUniprot,
            annotatedAt |-> 0,
            candidates |-> Null,
            thrown |-> Null ])
  /\ UNCHANGED << input, resultState, isDialogOpen, symbolToUniprotMap,
                  timeouts, clock >>

\* The Search button (disabled while loading).
ClickSearch ==
  /\ ~MicrotaskPending
  /\ ~loading
  /\ handleFetchData

\* handleKeyDown: Enter submits, any other key does nothing.
handleKeyDown(key) ==
  /\ ~MicrotaskPending
  /\ IF key = "Enter" THEN handleFetchData ELSE UNCHANGED vars

\* catch (setError) and finally (setLoading(false), setTimeout) of call i.
Throw(i, message) ==
  /\ error' = Some(message)
  /\ loading' = FALSE
  /\ timeouts' = timeouts + 1
  /\ calls' = [calls EXCEPT ![i].pc = "done", ![i].thrown = Some(message)]

\* Call i resumes after `await symbolToUniprotMap`: the lookup, then either the
\* annotation request or the resolution error.
ResumeWithMapping(i) ==
  /\ UNCHANGED << viewerVars, renderVars >>
  /\ calls[i].pc = "mapping"
  /\ symbolToUniprotMap.settled
  /\ \A j \in 1..(i - 1) : calls[j].pc # "mapping"
  /\ LET mapping == symbolToUniprotMap.value
         found == GetProperty(mapping, calls[i].query)
     IN IF Truthy(found)
          THEN /\ calls' = [calls EXCEPT ![i].pc = "annotation",
                                         ![i].query = found,
                                         ![i].annotationRequest = Some(found)]
               /\ UNCHANGED << error, loading, timeouts >>
          ELSE Throw(i, NoMappingMessage)
  /\ UNCHANGED << input, resultState, isDialogOpen, isLoading,
                  symbolToUniprotMap, clock >>

\* AnnotationSettles with a generation guard: the record of a call that is no
\* longer the latest submitted one is dropped.
AnnotationSettlesLatestOnly(i, response) ==
  /\ UNCHANGED << viewerVars, renderVars >>
  /\ ~MicrotaskPending
  /\ calls[i].pc = "annotation"
  /\ IF response = "ok"
       THEN /\ proteinData' = IF i = Len(calls)
                                THEN Some(UniProtRecord(calls[i].query))
                                ELSE proteinData
            /\ clock' = clock + 1
            /\ calls' = [calls EXCEPT ![i].pc = "summary",
                                      ![i].summaryRequest = Some(calls[i].query),
                                      ![i].annotatedAt = clock + 1]
            /\ UNCHANGED << error, loading, timeouts >>
       ELSE /\ Throw(i, IF response = "notOk" THEN FetchFailedMessage
                        ELSE NetworkErrorMessage)
            /\ UNCHANGED << proteinData, clock >>
  /\ UNCHANGED << input, availableStructures, selectedStructureURL,
                  selectedStructureID, isDialogOpen, hasSearched, isLoading,
                  symbolToUniprotMap >>

\* The annotation request of call i settles: setProteinData and the
\* structure-summary request, or a throw.
AnnotationSettles(i, response) ==
  /\ UNCHANGED << viewerVars, renderVars >>
  /\ ~MicrotaskPending
  /\ calls[i].pc = "annotation"
  /\ IF response = "ok"
       THEN /\ proteinData' = Some(UniProtRecord(calls[i].query))
            /\ clock' = clock + 1
            /\ calls' = [calls EXCEPT ![i].pc = "summary",
                                      ![i].summaryRequest = Some(calls[i].query),
                                      ![i].annotatedAt = clock + 1]
            /\ UNCHANGED << error, loading, timeouts >>
       ELSE /\ Throw(i, IF response = "notOk" THEN FetchFailedMessage
                        ELSE NetworkErrorMessage)
            /\ UNCHANGED << proteinData, clock >>
  /\ UNCHANGED << input, availableStructures, selectedStructureURL,
                  selectedStructureID, isDialogOpen, hasSearched, isLoading,
                  symbolToUniprotMap >>

\* The structure-summary request of call i settles.
SummarySettles(i, response) ==
  /\ UNCHANGED << viewerVars, renderVars >>
  /\ ~MicrotaskPending
  /\ calls[i].pc = "summary"
  /\ IF response.kind = "networkError"
       THEN /\ Throw(i, NetworkErrorMessage)
            /\ UNCHANGED << availableStructures, selectedStructureURL,
                            selectedStructureID, hasSearched >>
     ELSE IF response.kind = "badJson"
       THEN /\ Throw(i, SyntaxErrorMessage)
            /\ UNCHANGED << availableStructures, selectedStructureURL,
                            selectedStructureID, hasSearched >>
     ELSE /\ IF response.kind = "structures" /\ Len(response.structures) > 0
               THEN /\ availableStructures' = response.structures
                    /\ selectedStructureURL' =
                         response.structures[1].summary.model_url
                    /\ selectedStructureID' =
                         response.structures[1].summary.model_identifier
               ELSE UNCHANGED << availableStructures, selectedStructureURL,
                                 selectedStructureID >>
          /\ hasSearched' = TRUE
          /\ loading' = FALSE
          /\ timeouts' = timeouts + 1
          /\ calls' = [calls EXCEPT
               ![i].pc = "done",
               ![i].candidates =
                 Some(IF response.kind = "structures"
                        THEN Len(response.structures) ELSE 0)]
          /\ UNCHANGED error
  /\ UNCHANGED << input, proteinData, isDialogOpen, isLoading,
                  symbolToUniprotMap, clock >>

\* A 500 ms timer set by a finally block fires.
TimeoutFires ==
  /\ UNCHANGED << viewerVars, renderVars >>
  /\ ~MicrotaskPending
  /\ timeouts > 0
  /\ timeouts' = timeouts - 1
  /\ isLoading' = FALSE
  /\ UNCHANGED << input, proteinData, loading, error, availableStructures,
                  selectedStructureURL, selectedStructureID, isDialogOpen,
                  hasSearched, symbolToUniprotMap, calls, clock >>

\* onOpenChange of the structure dialog (rendered with the panels).
SetIsDialogOpen(open) ==
  /\ UNCHANGED << viewerVars, renderVars >>
  /\ ~MicrotaskPending
  /\ ShowsPanels
  /\ open # isDialogOpen
  /\ isDialogOpen' = open
  /\ UNCHANGED << input, proteinData, loading, error, availableStructures,
                  selectedStructureURL, selectedStructureID, hasSearched,
                  isLoading, symbolToUniprotMap, calls, timeouts, clock >>

\* The Select button of the k-th card of the open dialog.
handleModelClick(k) ==
  /\ UNCHANGED << viewerVars, renderVars >>
  /\ ~MicrotaskPending
  /\ ShowsPanels
  /\ isDialogOpen
  /\ k \in 1..Len(availableStructures)
  /\ selectedStructureURL' = availableStructures[k].summary.model_url
  /\ isDialogOpen' = FALSE
  /\ UNCHANGED << input, proteinData, loading, error, availableStructures,
                  selectedStructureID, hasSearched, isLoading,
                  symbolToUniprotMap, calls, timeouts, clock >>

Next ==
  \/ \E response \in MappingResponses : LoadMapping(response)
  \/ \E value \in Inputs : SetInput(value)
  \/ ClickSearch
  \/ \E key \in Keys : handleKeyDown(key)
  \/ \E i \in 1..Len(calls) : ResumeWithMapping(i)
  \/ \E i \in 1..Len(calls) : \E response \in AnnotationResponses :
       AnnotationSettles(i, response)
  \/ \E i \in 1..Len(calls) :
       \E response \in SummaryResponses(calls[i].query) :
         SummarySettles(i, response)
  \/ TimeoutFires
  \/ \E open \in BOOLEAN : SetIsDialogOpen(open)
  \/ \E k \in 1..MaxStructures : handleModelClick(k)

Spec == Init /\ [][Next]_vars

\* The search flow alone: the user types and submits, responses and timers
\* arrive, and the structure dialog is left untouched.
SearchNext ==
  \/ \E response \in MappingResponses : LoadMapping(response)
  \/ \E value \in Inputs : SetInput(value)
  \/ ClickSearch
  \/ \E key \in Keys : handleKeyDown(key)
  \/ \E i \in 1..Len(calls) : ResumeWithMapping(i)
  \/ \E i \in 1..Len(calls) : \E response \in AnnotationResponses :
       AnnotationSettles(i, response)
  \/ \E i \in 1..Len(calls) :
       \E response \in SummaryResponses(calls[i].query) :
         SummarySettles(i, response)
  \/ TimeoutFires

SearchSpec == Init /\ [][SearchNext]_vars

\* ------------------------------------------------------------ ProteinViewer
\* URLs App hands to ProteinViewer: "" and the model_url of a candidate.
ViewerUrls == { Structure(<<"P","0","4","6","3","7">>, n).summary.model_url
                : n \in 1..MaxStructures }
\* How the awaits of createPlugin after createPluginUI end.
BuildOutcomes == {"resolved", "rejected"}

\* A session is live from createPluginUI's resolution until dispose().
Live(s) == sessions[s].created /\ sessions[s].disposed = 0
LiveSessions == { s \in 1..Len(sessions) : Live(s) }

\* The effect body for dataUrl = url: `if (!viewerRef.current || !dataUrl)
\* return;` registers no cleanup; otherwise createPlugin is called and the
\* cleanup is returned.
RunEffect(url, before) ==
  IF url = EmptyString
    THEN /\ sessions' = before
         /\ cleanup' = FALSE
    ELSE /\ sessions' = Append(before,
              [dataUrl |-> url, stage |-> "createPluginUI",
               created |-> FALSE, disposed |-> 0])
         /\ cleanup' = TRUE

\* The cleanup of the previous effect run, if it returned one:
\* if (pluginRef.current) pluginRef.current.dispose().
RunCleanup ==
  IF cleanup /\ pluginRef # Null
    THEN [sessions EXCEPT ![pluginRef[1]].disposed = @ + 1]
    ELSE sessions

\* First render of ProteinViewer with dataUrl = url; the effect runs.
MountViewer(url) ==
  /\ lifecycle = "initial"
  /\ lifecycle' = "mounted"
  /\ dataUrl' = url
  /\ RunEffect(url, sessions)
  /\ UNCHANGED pluginRef
  /\ UNCHANGED << appVars, renderVars >>

\* Re-render with another dataUrl: the previous cleanup, then the effect.
ChangeDataUrl(url) ==
  /\ lifecycle = "mounted"
  /\ url # dataUrl
  /\ Len(sessions) < MaxSessions
  /\ dataUrl' = url
  /\ RunEffect(url, RunCleanup)
  /\ UNCHANGED << lifecycle, pluginRef >>
  /\ UNCHANGED << appVars, renderVars >>

\* await createPluginUI(...) of session s ends: the plugin exists in the
\* container, or the call rejects.
CreatePluginUISettles(s, outcome) ==
  /\ sessions[s].stage = "createPluginUI"
  /\ sessions' =
       IF outcome = "resolved"
         THEN [sessions EXCEPT ![s].stage = "build", ![s].created = TRUE]
         ELSE [sessions EXCEPT ![s].stage = "rejected"]
  /\ UNCHANGED << lifecycle, dataUrl, cleanup, pluginRef >>
  /\ UNCHANGED << appVars, renderVars >>

\* download / parseTrajectory / applyPreset of session s end: createPlugin
\* resolves and .then stores the plugin, or createPlugin rejects.
CreatePluginSettles(s, outcome) ==
  /\ sessions[s].stage = "build"
  /\ sessions' = [sessions EXCEPT ![s].stage = outcome]
  /\ pluginRef' = IF outcome = "resolved" THEN Some(s) ELSE pluginRef
  /\ UNCHANGED << lifecycle, dataUrl, cleanup >>
  /\ UNCHANGED << appVars, renderVars >>

\* ProteinViewer unmounts: the cleanup of the last effect run.
UnmountViewer ==
  /\ lifecycle = "mounted"
  /\ lifecycle' = "unmounted"
  /\ sessions' = RunCleanup
  /\ UNCHANGED << dataUrl, cleanup, pluginRef >>
  /\ UNCHANGED << appVars, renderVars >>

ViewerNext ==
  \/ \E url \in ViewerUrls \cup {EmptyString} : MountViewer(url)
  \/ \E url \in ViewerUrls : ChangeDataUrl(url)
  \/ \E s \in 1..Len(sessions) : \E outcome \in BuildOutcomes :
       CreatePluginUISettles(s, outcome)
  \/ \E s \in 1..Len(sessions) : \E outcome \in BuildOutcomes :
       CreatePluginSettles(s, outcome)
  \/ UnmountViewer

ViewerSpec == Init /\ [][ViewerNext]_vars

\* ------------------------------------------------------------- renderLinks
\* Text is a sequence of one-character strings; a piece of markup that
\* renderLinks writes from a literal of its source is one element holding the
\* whole literal.  None of the literals contains a bracket, a parenthesis or a
\* period followed by a space.
PubMedHrefOpen ==
  "<a href=\"https://pubmed.ncbi.nlm.nih.gov/"
HrefOpen ==
  "<a href=\""
AnchorAttributes ==
  "\" target=\"_blank\" rel=\"noopener noreferrer\" class=\"text-indigo-600 hover:text-indigo-800\">"
ExternalLinkGlyph ==
  "<span class=\"inline-block align-text-bottom ml-1\"><svg xmlns=\"http://www.w3.org/2000/svg\" width=\"12\" height=\"12\" viewBox=\"0 0 24 24\" fill=\"none\" stroke=\"currentColor\" stroke-width=\"2\" stroke-linecap=\"round\" stroke-linejoin=\"round\"><path d=\"M18 13v6a2 2 0 0 1-2 2H5a2 2 0 0 1-2-2V8a2 2 0 0 1 2-2h6\"></path><polyline points=\"15 3 21 3 21 9\"></polyline><line x1=\"10\" y1=\"14\" x2=\"21\" y2=\"3\"></line></svg></span></a>"
LineBreak == "<br>"

Digits == {"0", "1", "2", "3", "4", "5", "6", "7", "8", "9"}
PubMedPrefix == <<"P", "u", "b", "M", "e", "d", ":">>

\* The literal lit stands in s at position p.
HasAt(s, p, lit) ==
  /\ p + Len(lit) - 1 <= Len(s)
  /\ SubSeq(s, p, p + Len(lit) - 1) = lit

\* The least position of the set P, otherwise when P is empty.
First(P, otherwise) ==
  IF P = {} THEN otherwise ELSE CHOOSE q \in P : \A r \in P : q <= r

\* \d* and \s* from position p: the position after the run.
DigitsEnd(s, p) == First({q \in p..Len(s) : s[q] \notin Digits}, Len(s) + 1)
SpacesEnd(s, p) == First({q \in p..Len(s) : s[q] \notin WhiteSpace}, Len(s) + 1)

\* PubMed:(\d+) at position p: the position after it, 0 when it does not match.
PubMedRefEnd(s, p) ==
  IF HasAt(s, p, PubMedPrefix) /\ DigitsEnd(s, p + Len(PubMedPrefix)) > p + Len(PubMedPrefix)
  THEN DigitsEnd(s, p + Len(PubMedPrefix))
  ELSE 0

\* (?:,\s*PubMed:(\d+))*\) at position p: the position after it, 0 when it
\* does not match.
RECURSIVE PubMedTailEnd(_, _)
PubMedTailEnd(s, p) ==
  IF p > Len(s) THEN 0
  ELSE IF s[p] = ")" THEN p + 1
  ELSE IF s[p] = ","
    THEN LET q == PubMedRefEnd(s, SpacesEnd(s, p + 1))
         IN IF q = 0 THEN 0 ELSE PubMedTailEnd(s, q)
  ELSE 0

\* /\(PubMed:(\d+)(?:,\s*PubMed:(\d+))*\)/ at position p: the position after
\* the match, 0 when there is none.
PubMedRunEnd(s, p) ==
  IF p <= Len(s) /\ s[p] = "("
  THEN LET q == PubMedRefEnd(s, p + 1)
       IN IF q = 0 THEN 0 ELSE PubMedTailEnd(s, q)
  ELSE 0

\* match.match(/\d+/g): the maximal runs of digits of s from position p on.
RECURSIVE DigitRuns(_, _)
DigitRuns(s, p) ==
  LET d == First({q \in p..Len(s) : s[q] \in Digits}, 0)
  IN IF d = 0 THEN <<>>
     ELSE <<SubSeq(s, d, DigitsEnd(s, d) - 1)>> \o DigitRuns(s, DigitsEnd(s, d))

\* The template literal of the callback of the first replace.
PubMedAnchor(id) ==
  <<PubMedHrefOpen>> \o id \o <<AnchorAttributes>> \o PubMedPrefix \o id
    \o <<ExternalLinkGlyph>>

\* ids.map(...).join(", ")
RECURSIVE JoinAnchors(_)
JoinAnchors(ids) ==
  IF Len(ids) = 0 THEN <<>>
  ELSE IF Len(ids) = 1 THEN PubMedAnchor(ids[1])
  ELSE PubMedAnchor(ids[1]) \o <<",", " ">> \o JoinAnchors(Tail(ids))

\* The callback of the first replace.
PubMedReplacement(match) ==
  <<"(">> \o JoinAnchors(DigitRuns(match, 1)) \o <<")">>

\* text.replace(/\(PubMed:...\)/g, callback), from position p on.
RECURSIVE ReplacePubMed(_, _)
ReplacePubMed(s, p) ==
  LET m == First({q \in p..Len(s) : PubMedRunEnd(s, q) # 0}, 0)
  IN IF m = 0 THEN SubSeq(s, p, Len(s))
     ELSE SubSeq(s, p, m - 1)
            \o PubMedReplacement(SubSeq(s, m, PubMedRunEnd(s, m) - 1))
            \o ReplacePubMed(s, PubMedRunEnd(s, m))

\* The first position from p on that holds stop, Len(s) + 1 when none does.
Find(s, p, stop) == First({q \in p..Len(s) : s[q] = stop}, Len(s) + 1)

\* /\[([^\]]+)\]\(([^)]+)\)/ at position p: the position after the match, 0
\* when there is none.
BracketLinkEnd(s, p) ==
  IF p <= Len(s) /\ s[p] = "["
  THEN LET r == Find(s, p + 1, "]")
           c == Find(s, r + 2, ")")
       IN IF /\ r > p + 1
             /\ r + 1 <= Len(s)
             /\ s[r + 1] = "("
             /\ c > r + 2
             /\ c <= Len(s)
          THEN c + 1
          ELSE 0
  ELSE 0

\* The replacement string of the second replace, $1 and $2 filled in from the
\* match that starts at p and ends before e.
BracketLinkReplacement(s, p, e) ==
  LET r == Find(s, p + 1, "]")
  IN <<HrefOpen>> \o SubSeq(s, r + 2, e - 2) \o <<AnchorAttributes>>
       \o SubSeq(s, p + 1, r - 1) \o <<ExternalLinkGlyph>>

\* .replace(/\[([^\]]+)\]\(([^)]+)\)/g, '<a href="$2" ...>$1...</a>')
RECURSIVE ReplaceBracketLinks(_, _)
ReplaceBracketLinks(s, p) ==
  LET m == First({q \in p..Len(s) : BracketLinkEnd(s, q) # 0}, 0)
  IN IF m = 0 THEN SubSeq(s, p, Len(s))
     ELSE SubSeq(s, p, m - 1)
            \o BracketLinkReplacement(s, m, BracketLinkEnd(s, m))
            \o ReplaceBracketLinks(s, BracketLinkEnd(s, m))

\* .replace(/\. /g, ".<br>")
RECURSIVE ReplacePeriodSpace(_, _)
ReplacePeriodSpace(s, p) ==
  LET m == First({q \in p..Len(s) : HasAt(s, q, <<".", " ">>)}, 0)
  IN IF m = 0 THEN SubSeq(s, p, Len(s))
     ELSE SubSeq(s, p, m - 1) \o <<".", LineBreak>>
            \o ReplacePeriodSpace(s, m + 2)

\* Pieces of function-comment text, and the texts made of at most MaxSegments
\* of them.
Segments ==
  { <<"[", "a", "]">>,
    <<"(", "u", ")">>,
    <<"(", "P", "u", "b", "M", "e", "d", ":", "1", ")">>,
    <<"(", "P", "u", "b", "M", "e", "d", ":", "1", "2", ",", " ",
      "P", "u", "b", "M", "e", "d", ":", "3", ")">>,
    <<"(", "P", "u", "b", "M", "e", "d", ":", "1", ",", "b", ")">>,
    <<".", " ">>,
    <<"x">> }
RECURSIVE Concat(_)
Concat(ss) == IF Len(ss) = 0 THEN <<>> ELSE Head(ss) \o Concat(Tail(ss))
Texts == { Concat(ss) : ss \in UNION { [1..n -> Segments] : n \in 0..MaxSegments } }

\* renderLinks is about to be called with some text.
RenderInit ==
  /\ AppInit
  /\ ViewerInit
  /\ text \in Texts
  /\ pubmedReplaced = Null
  /\ rendered = Null

\* One call of renderLinks(text).
renderLinks ==
  /\ UNCHANGED << appVars, viewerVars >>
  /\ rendered = Null
  /\ pubmedReplaced' = Some(ReplacePubMed(text, 1))
  /\ rendered' =
       Some(ReplacePeriodSpace(ReplaceBracketLinks(ReplacePubMed(text, 1), 1), 1))
  /\ UNCHANGED text

RenderNext == renderLinks

RenderSpec == RenderInit /\ [][RenderNext]_vars

\* ------------------------------------------------------------------ claims
Calls == 1..Len(calls)
Done(i) == calls[i].pc = "done"

\* The reference resolver of the specification: the query itself when it
\* matches the pattern, else the SymbolMap entry, else failure (Null).
ReferenceResolve(q, m) ==
  IF IsUniprot(q) THEN Some(q)
  ELSE IF q \in DOMAIN m THEN Some(m[q])
  ELSE Null

\* C1: once a call is past resolution, the accession of its annotation and
\* structure-summary requests is the reference resolver's: the trimmed query
\* when it matches the pattern (SymbolMap not awaited); else the SymbolMap entry
\* of the query; else no request is issued and the call ended with the
\* resolution error.
C1_ResolverMatchesReference ==
  \A i \in Calls :
    calls[i].pc # "mapping" =>
      LET q == calls[i].trimmed
          expected == ReferenceResolve(q, symbolToUniprotMap.value)
      IN /\ IsUniprot(q) => ~calls[i].awaitedMapping
         /\ calls[i].annotationRequest = expected
         /\ calls[i].summaryRequest \in {Null, expected}
         /\ expected = Null =>
              Done(i) /\ calls[i].thrown = Some(NoMappingMessage)

\* C2: whenever a call has completed with an error and that message is the
\* current error state, the view shows the message.
C2_ErrorIsShown ==
  \A i \in Calls :
    (Done(i) /\ calls[i].thrown # Null /\ error = calls[i].thrown) => ShowsError

\* C3: whenever every search has completed, and one has ended in a resolution
\* or annotation error whose message is the current error state, proteinData
\* is unset.
C3_ErrorExcludesRecord ==
  \A i \in Calls :
    ( /\ \A j \in Calls : Done(j)
      /\ Done(i)
      /\ calls[i].summaryRequest = Null
      /\ calls[i].thrown # Null
      /\ error = calls[i].thrown ) => proteinData = Null

ZeroCandidateSearchCompletes ==
  \E i \in Calls :
    /\ calls[i].pc = "summary"
    /\ calls'[i].pc = "done"
    /\ calls'[i].candidates = Some(0)
C5_ZeroCandidatesEmptyPicker ==
  [][ ZeroCandidateSearchCompletes =>
        /\ availableStructures' = <<>>
        /\ selectedStructureURL' = EmptyString
        /\ proteinData' # Null ]_vars

\* Sessions createPlugin has built and returned (its promise resolved).
Built == { s \in 1..Len(sessions) : sessions[s].stage = "resolved" }

\* C6: at most one session that createPlugin has built is live in the
\* container.
C6_AtMostOneLiveSession == Cardinality(Built \cap LiveSessions) <= 1

\* C7: dispose() is never called twice on a session, and once the viewer is
\* unmounted and every build has settled, every session createPlugin has built
\* has been disposed.
AllSettled ==
  \A s \in 1..Len(sessions) : sessions[s].stage \in {"resolved", "rejected"}
C7_ReleasedExactlyOnce ==
  /\ \A s \in 1..Len(sessions) : sessions[s].disposed <= 1
  /\ (lifecycle = "unmounted" /\ AllSettled) =>
       \A s \in Built : sessions[s].disposed = 1

\* C8: while any search is in flight, loading is true and the progress
\* indicator is shown.
C8_IndicatorCoversLoading ==
  (\E i \in Calls : ~Done(i)) => (loading /\ ShowsProgressIndicator)

\* C9: last-resolved-wins: proteinData is the record delivered by the
\* annotation response that resolved last among all calls (of whichever call,
\* submitted first or last), and is unset while none has delivered one.
Annotated == { i \in Calls : calls[i].annotatedAt > 0 }
LastAnnotated ==
  CHOOSE i \in Annotated :
    \A j \in Annotated : calls[j].annotatedAt <= calls[i].annotatedAt
C9_LastResolvedWins ==
  IF Annotated = {}
    THEN proteinData = Null
    ELSE proteinData = Some(UniProtRecord(calls[LastAnnotated].query))
\* Two overlapping searches for different accessions have both completed, and
\* the one submitted first got its annotation response last.
C9_Witness ==
  /\ Len(calls) >= 2
  /\ Done(1) /\ Done(2)
  /\ calls[2].annotatedAt > 0
  /\ calls[1].annotatedAt > calls[2].annotatedAt
  /\ calls[1].query # calls[2].query
  /\ proteinData = Some(UniProtRecord(calls[1].query))

\* C11: every accession used for an annotation or a structure-summary request
\* matches the accession pattern.
C11_RequestsUseAccessions ==
  \A i \in Calls :
    /\ calls[i].annotationRequest # Null =>
         IsUniprot(calls[i].annotationRequest[1])
    /\ calls[i].summaryRequest # Null =>
         IsUniprot(calls[i].summaryRequest[1])

\* C12: from the moment the annotation response of a call has been applied,
\* the annotation panels are rendered, whatever the state of its
\* structure-summary request.
C12_AnnotationVisibleAtOnce ==
  \A i \in Calls : calls[i].annotatedAt > 0 => ShowsPanels

\* C13: the second replace of renderLinks never matches a span that holds
\* markup written by the first replace.
RECURSIVE BracketLinkMatches(_, _)
BracketLinkMatches(s, p) ==
  LET m == First({q \in p..Len(s) : BracketLinkEnd(s, q) # 0}, 0)
  IN IF m = 0 THEN {}
     ELSE {<<m, BracketLinkEnd(s, m) - 1>>}
            \cup BracketLinkMatches(s, BracketLinkEnd(s, m))
Markup == {PubMedHrefOpen, HrefOpen, AnchorAttributes, ExternalLinkGlyph, LineBreak}
C13_PassesDoNotOverlap ==
  rendered # Null =>
    \A m \in BracketLinkMatches(pubmedReplaced[1], 1) :
      \A k \in m[1]..m[2] : pubmedReplaced[1][k] \notin Markup

\* C14: in every quiescent state (at least one search made, none in flight)
\* that shows a record, the candidates of the picker and the selected structure
\* belong to the accession of that record.
Quiescent == Len(calls) > 0 /\ \A i \in Calls : Done(i)
AccessionOfUrl(url) == url[2]
C14_ViewCoherentPerAccession ==
  (Quiescent /\ proteinData # Null) =>
    LET accession == proteinData[1].primaryAccession
    IN /\ \A k \in 1..Len(availableStructures) :
            AccessionOfUrl(availableStructures[k].summary.model_url) = accession
       /\ selectedStructureURL # EmptyString =>
            AccessionOfUrl(selectedStructureURL) = accession

\* C10: selectedStructureID and selectedStructureURL are the identifier and
\* the URL of one candidate (or both still empty).
C10_SelectedIsOneCandidate ==
  \/ selectedStructureURL = EmptyString /\ selectedStructureID = EmptyString
  \/ \E k \in 1..Len(availableStructures) :
       /\ selectedStructureURL = availableStructures[k].summary.model_url
       /\ selectedStructureID = availableStructures[k].summary.model_identifier



====
